---- MODULE Spec2Model ----
(***************************************************************************)
(* A model of the clip pipeline of out_of_pocket_clipper.py and of the     *)
(* generate handler of clipper_ui.py.                                      *)
(*                                                                         *)
(* Text is modelled as a sequence of one-character strings, so that        *)
(* str.split, str.strip, str.startswith, int() and float() are computed on *)
(* characters as Python computes them.                                     *)
(***************************************************************************)
EXTENDS Integers, Sequences, FiniteSets, TLC

\* ------------------------------------------------------------------ bounds

\* Longest timestamp text enumerated exhaustively over TsChars.
MaxTsLen == 5

\* Longest string element of an enumerated JSON array payload.
MaxStrLen == 3

\* Most elements of an enumerated JSON array payload.
MaxElems == 2

\* Most clips in a reply of the inference backend to a pipeline run.
MaxClips == 2

\* Most segments in a reply when only the progress bar is followed.
MaxSegments == 16

\* The turns of upload_to_gemini's wait loop are counted up to this number;
\* the loop itself has no limit.
MaxGeminiPolls == 3

\* ------------------------------------------------------------------- text

\* All sequences over S of length at most n.
BSeq(S, n) == UNION {[1..k -> S] : k \in 0..n}

DigitChars == {"0", "1", "2", "3", "4", "5", "6", "7", "8", "9"}

DigitVal(c) ==
    CASE c = "0" -> 0 [] c = "1" -> 1 [] c = "2" -> 2 [] c = "3" -> 3
      [] c = "4" -> 4 [] c = "5" -> 5 [] c = "6" -> 6 [] c = "7" -> 7
      [] c = "8" -> 8 [] c = "9" -> 9

\* The characters str.strip() removes (of the characters the model uses).
WsChars == {" ", "\n"}

StartsWith(s, p) == Len(s) >= Len(p) /\ SubSeq(s, 1, Len(p)) = p

RECURSIVE LStrip(_)
LStrip(s) == IF s # <<>> /\ Head(s) \in WsChars THEN LStrip(Tail(s)) ELSE s

RECURSIVE RStrip(_)
RStrip(s) ==
    IF s # <<>> /\ s[Len(s)] \in WsChars THEN RStrip(SubSeq(s, 1, Len(s) - 1)) ELSE s

\* str.strip()
Strip(s) == RStrip(LStrip(s))

\* str.split(sep) for a non-empty separator: the parts between the leftmost
\* non-overlapping occurrences of sep; always at least one part.
RECURSIVE SplitAcc(_, _, _)
SplitAcc(s, sep, cur) ==
    IF s = <<>> THEN <<cur>>
    ELSE IF StartsWith(s, sep)
         THEN <<cur>> \o SplitAcc(SubSeq(s, Len(sep) + 1, Len(s)), sep, <<>>)
         ELSE SplitAcc(Tail(s), sep, Append(cur, Head(s)))

Split(s, sep) == SplitAcc(s, sep, <<>>)

AllDigits(s) == \A k \in 1..Len(s) : s[k] \in DigitChars

RECURSIVE DigitsVal(_)
DigitsVal(s) ==
    IF s = <<>> THEN 0 ELSE DigitsVal(SubSeq(s, 1, Len(s) - 1)) * 10 + DigitVal(s[Len(s)])

RECURSIVE Pow10(_)
Pow10(k) == IF k = 0 THEN 1 ELSE 10 * Pow10(k - 1)

\* ---------------------------------------------------------------- numbers

\* A number is the decimal n / 10^e with the trailing zeros of the fraction
\* removed; a failed conversion (ValueError) is NumErr.
NumErr == [ok |-> FALSE, n |-> 0, e |-> 0]

RECURSIVE Num(_, _)
Num(n, e) ==
    IF e > 0 /\ n % 10 = 0 THEN Num(n \div 10, e - 1) ELSE [ok |-> TRUE, n |-> n, e |-> e]

SignChars == {"-", "+"}

Unsigned(s) == IF s # <<>> /\ Head(s) \in SignChars THEN Tail(s) ELSE s

SignOf(s) == IF s # <<>> /\ Head(s) = "-" THEN -1 ELSE 1

\* int(text): surrounding whitespace, an optional sign, one or more digits.
\* (Digit-group underscores are outside the alphabets the inputs are drawn from.)
PyInt(s) ==
    LET t == Strip(s)
        d == Unsigned(t)
    IN  IF d # <<>> /\ AllDigits(d) THEN Num(SignOf(t) * DigitsVal(d), 0) ELSE NumErr

\* float(text): surrounding whitespace, an optional sign, then digits with an
\* optional fraction: "12", "12.", "12.5", ".5".  (Exponents, inf and nan are
\* outside the alphabets the inputs are drawn from.)
PyFloat(s) ==
    LET t == Strip(s)
        d == Unsigned(t)
        p == Split(d, <<".">>)
    IN  IF Len(p) = 1 /\ d # <<>> /\ AllDigits(d)
        THEN Num(SignOf(t) * DigitsVal(d), 0)
        ELSE IF /\ Len(p) = 2
                /\ AllDigits(p[1]) /\ AllDigits(p[2])
                /\ Len(p[1]) + Len(p[2]) > 0
        THEN Num(SignOf(t) * DigitsVal(p[1] \o p[2]), Len(p[2]))
        ELSE NumErr

\* a + b for an integer a and a number b, as Python's int + float.
AddInt(a, b) == Num(a * Pow10(b.e) + b.n, b.e)

\* ------------------------------------------------- timestamp_to_seconds

HourSeconds == 3600

MinuteSeconds == 60

\* timestamp_to_seconds with the hours weighted like minutes.
timestamp_to_seconds_hours60(timestamp) ==
    LET parts == Split(timestamp, <<":">>)
    IN  IF Len(parts) = 3
        THEN LET h == PyInt(parts[1])  m == PyInt(parts[2])  s == PyFloat(parts[3])
             IN  IF h.ok /\ m.ok /\ s.ok
                 THEN AddInt(h.n * MinuteSeconds + m.n * MinuteSeconds, s)
                 ELSE NumErr
        ELSE IF Len(parts) = 2
        THEN LET m == PyInt(parts[1])  s == PyFloat(parts[2])
             IN  IF m.ok /\ s.ok THEN AddInt(m.n * MinuteSeconds, s) ELSE NumErr
        ELSE PyFloat(parts[1])

\* ClipProcessor.timestamp_to_seconds: the conversions run left to right and
\* the first ValueError ends the call.
timestamp_to_seconds(timestamp) ==
    LET parts == Split(timestamp, <<":">>)
    IN  IF Len(parts) = 3
        THEN LET h == PyInt(parts[1])  m == PyInt(parts[2])  s == PyFloat(parts[3])
             IN  IF h.ok /\ m.ok /\ s.ok
                 THEN AddInt(h.n * HourSeconds + m.n * MinuteSeconds, s)
                 ELSE NumErr
        ELSE IF Len(parts) = 2
        THEN LET m == PyInt(parts[1])  s == PyFloat(parts[2])
             IN  IF m.ok /\ s.ok THEN AddInt(m.n * MinuteSeconds, s) ELSE NumErr
        ELSE PyFloat(parts[1])

\* -------------------------------------------------------- inference reply

(***************************************************************************)
(* The text of an inference reply is a sequence of tokens: one-character   *)
(* strings, and the names in ObjNames, each standing for the text of one   *)
(* complete JSON object literal (ObjVal gives the dict json.loads makes of *)
(* it).  JSON values are tagged: [t |-> "arr" | "str" | "obj", v |-> ...].  *)
(***************************************************************************)

T_0005 == <<"0", ":", "0", "5">>
T_0010 == <<"0", ":", "1", "0">>
T_0100 == <<"1", ":", "0", "0">>
T_ab == <<"a", ":", "b">>

SegA == [start |-> T_0005, end |-> T_0010, summary |-> "s1", virality_score |-> 8]
SegB == [start |-> T_0010, end |-> T_0100, summary |-> "", virality_score |-> 3]
\* a start that is no timestamp
SegBadTs == [start |-> T_ab, end |-> T_0010, summary |-> "s3", virality_score |-> 5]
\* an end before the start
SegRev == [start |-> T_0010, end |-> T_0005, summary |-> "s4", virality_score |-> 9]
NoStart == [end |-> T_0010, summary |-> "s1", virality_score |-> 8]
NoEnd == [start |-> T_0005, summary |-> "s1", virality_score |-> 8]
NoSummary == [start |-> T_0005, end |-> T_0010, virality_score |-> 8]
NoScore == [start |-> T_0005, end |-> T_0010, summary |-> "s1"]

FullObjNames == {"{A}", "{B}", "{BadTs}", "{Rev}"}

PartObjNames == {"{NoStart}", "{NoEnd}", "{NoSummary}", "{NoScore}"}

ObjNames == FullObjNames \cup PartObjNames \cup {"{}"}

ObjVal(name) ==
    CASE name = "{A}" -> SegA
      [] name = "{B}" -> SegB
      [] name = "{BadTs}" -> SegBadTs
      [] name = "{Rev}" -> SegRev
      [] name = "{NoStart}" -> NoStart
      [] name = "{NoEnd}" -> NoEnd
      [] name = "{NoSummary}" -> NoSummary
      [] name = "{NoScore}" -> NoScore
      [] name = "{}" -> <<>>

\* the double-quote character
DQuote == "\""

JArr(v) == [t |-> "arr", v |-> v]
JStr(v) == [t |-> "str", v |-> v]
JObj(v) == [t |-> "obj", v |-> v]
JNone == [t |-> "none", v |-> <<>>]

JFail == [ok |-> FALSE, val |-> JNone, rest |-> <<>>]
JOk(val, rest) == [ok |-> TRUE, val |-> val, rest |-> rest]

\* JSON whitespace (of the characters the model uses) is what strip() removes.
SkipWs(s) == LStrip(s)

\* The rest of a string after its opening quote.  A raw newline is a control
\* character, which json.loads rejects inside a string; the literal of a
\* non-empty object holds quotes of its own, the first of which ends the
\* string before a key that no JSON text can continue with; the literal of
\* the empty object is the two characters { and }.
RECURSIVE ParseString(_, _)
ParseString(s, acc) ==
    IF s = <<>> THEN JFail
    ELSE IF Head(s) = DQuote THEN JOk(JStr(acc), Tail(s))
    ELSE IF Head(s) = "{}" THEN ParseString(Tail(s), acc \o <<"{", "}">>)
    ELSE IF Head(s) = "\n" \/ Head(s) \in ObjNames THEN JFail
    ELSE ParseString(Tail(s), Append(acc, Head(s)))

RECURSIVE ParseValue(_)
RECURSIVE ParseElems(_, _)

\* One JSON value at the head of s (whitespace already skipped).
ParseValue(s) ==
    IF s = <<>> THEN JFail
    ELSE IF Head(s) = "["
         THEN LET t == SkipWs(Tail(s))
              IN  IF t # <<>> /\ Head(t) = "]" THEN JOk(JArr(<<>>), Tail(t))
                  ELSE ParseElems(t, <<>>)
    ELSE IF Head(s) = DQuote THEN ParseString(Tail(s), <<>>)
    ELSE IF Head(s) \in ObjNames THEN JOk(JObj(ObjVal(Head(s))), Tail(s))
    ELSE JFail

\* The elements of a non-empty array, up to its closing bracket.
ParseElems(s, acc) ==
    LET r == ParseValue(s)
        t == SkipWs(r.rest)
    IN  IF ~r.ok \/ t = <<>> THEN JFail
        ELSE IF Head(t) = "," THEN ParseElems(SkipWs(Tail(t)), Append(acc, r.val))
        ELSE IF Head(t) = "]" THEN JOk(JArr(Append(acc, r.val)), Tail(t))
        ELSE JFail

\* json.loads(text): one value with nothing but whitespace around it.
JsonLoads(text) ==
    LET r == ParseValue(SkipWs(text))
    IN  IF r.ok /\ SkipWs(r.rest) = <<>> THEN JOk(r.val, <<>>) ELSE JFail

\* the backtick character (a token of its own name: the TLA+ lexer accepts no
\* backtick inside a string)
Backtick == "backtick"

Fence == <<Backtick, Backtick, Backtick>>

JsonWord == <<"j", "s", "o", "n">>

\* find_viral_clips, lines 145-151: the text handed to json.loads.
StripFence(response_text) ==
    LET t == Strip(response_text)
    IN  IF StartsWith(t, Fence)
        THEN LET u == Split(t, Fence)[2]
             IN  IF StartsWith(u, JsonWord) THEN SubSeq(u, Len(JsonWord) + 1, Len(u)) ELSE u
        ELSE t

\* find_viral_clips, lines 145-153: strip, remove a fence, json.loads.
ParseReply(response_text) == JsonLoads(StripFence(response_text))

RequiredFields == {"start", "end", "virality_score", "summary"}

\* What a for loop over a parsed value visits: the elements of an array, the
\* characters of a string, the keys of a dict (each key a string; its text
\* is not modelled).
Items(val) ==
    IF val.t = "arr" THEN val.v
    ELSE IF val.t = "str" THEN [k \in 1..Len(val.v) |-> JStr(<<val.v[k]>>)]
    ELSE [k \in 1..Cardinality(DOMAIN val.v) |-> JStr(<<"key">>)]

\* clip['start'], clip['end'], clip['virality_score'] and clip['summary'] all
\* evaluate (lines 157-158).
ClipOk(c) == c.t = "obj" /\ RequiredFields \subseteq DOMAIN c.v

MinOf(S) == CHOOSE x \in S : \A y \in S : x <= y

FvErr(kind) == [ok |-> FALSE, err |-> kind, clips |-> JNone]

\* find_viral_clips without the loop that reads every clip's fields.
FindViralClips_NoFieldAccess(response_text) ==
    LET j == ParseReply(response_text)
    IN  IF ~j.ok THEN FvErr("JSONDecodeError")
        ELSE [ok |-> TRUE, err |-> "", clips |-> j.val]

\* find_viral_clips, lines 144-164, on the text of the reply: the parsed value
\* is returned once the logging loop has read the four fields of every
\* element; the first element it cannot read raises.
FindViralClips(response_text) ==
    LET j == ParseReply(response_text)
        items == Items(j.val)
        bad == {k \in 1..Len(items) : ~ClipOk(items[k])}
    IN  IF ~j.ok THEN FvErr("JSONDecodeError")
        ELSE IF bad # {}
        THEN FvErr(IF items[MinOf(bad)].t = "obj" THEN "KeyError" ELSE "TypeError")
        ELSE [ok |-> TRUE, err |-> "", clips |-> j.val]

\* ------------------------------------------------------------ reply texts

\* What an array element is written from: the characters of a string (runs
\* of backticks, and a word), or the name of an object literal.
StrSources == {[t |-> "str", v |-> c] : c \in BSeq({Backtick}, MaxStrLen) \cup {<<"x">>}}

LitSources(names) == {[t |-> "lit", v |-> <<name>>] : name \in names}

ElemText(es) == IF es.t = "str" THEN <<DQuote>> \o es.v \o <<DQuote>> ELSE es.v

ElemValue(es) == IF es.t = "str" THEN JStr(es.v) ELSE JObj(ObjVal(es.v[1]))

RECURSIVE JoinElems(_)
JoinElems(elems) ==
    IF elems = <<>> THEN <<>>
    ELSE IF Len(elems) = 1 THEN ElemText(elems[1])
    ELSE ElemText(elems[1]) \o <<",", " ">> \o JoinElems(Tail(elems))

\* The JSON text of the array of these elements.
Render(elems) == <<"[">> \o JoinElems(elems) \o <<"]">>

\* The reply that holds the payload bare or inside a code fence.
Wrap(fence, layout, payload) ==
    LET nl == IF layout = "lines" THEN <<"\n">> ELSE <<>>
        pad == IF layout = "lines" THEN <<" ">> ELSE <<>>
        open == IF fence = "json" THEN Fence \o JsonWord ELSE Fence
    IN  IF fence = "none" THEN pad \o payload \o nl
        ELSE pad \o open \o nl \o payload \o nl \o Fence \o nl

\* Replies that are no JSON text, bare or fenced: empty, prose, an open
\* array, a trailing comma, prose before the fence.
GarbageReplies ==
    { <<>>,
      <<"x">>,
      <<"[", "{A}">>,
      <<"[", "{A}", ",", "]">>,
      <<"x", " ">> \o Wrap("json", "tight", <<"[", "{A}", "]">>) }

\* Replies that are JSON text but no array.
ScalarReplies ==
    { <<DQuote, DQuote>>, <<DQuote, "x", DQuote>>, <<"{}">>, <<"{A}">> }

\* --------------------------------------------------------------- variables

VARIABLES
    ts_in,      \* the argument of a timestamp_to_seconds call
    ts_pc,      \* "call" before the call, "returned" or "raised" after it
    ts_out,     \* the number returned (NumErr while none is)
    fv_kind,    \* how the reply was written: "array", "garbage" or "scalar"
    fv_elems,   \* the elements an array payload is written from
    fv_fence,   \* the fence around the payload: "none", "plain" or "json"
    fv_layout,  \* "tight", or "lines": newlines inside the fence, blanks around
    fv_resp,    \* response.text
    fv_text,    \* the text handed to json.loads
    fv_pc,      \* "call" before find_viral_clips ran, "done" after it
    fv_json,    \* what json.loads made of fv_text
    fv_ret      \* what find_viral_clips returned or raised

tsVars == <<ts_in, ts_pc, ts_out>>

fvVars ==
    <<fv_kind, fv_elems, fv_fence, fv_layout, fv_resp, fv_text, fv_pc, fv_json, fv_ret>>


\* The variables of a specification that is not running, at rest.
TsIdle == ts_in = <<>> /\ ts_pc = "idle" /\ ts_out = NumErr

FvIdle ==
    /\ fv_kind = "none" /\ fv_elems = <<>> /\ fv_fence = "none" /\ fv_layout = "tight"
    /\ fv_resp = <<>> /\ fv_text = <<>> /\ fv_pc = "idle" /\ fv_json = JFail
    /\ fv_ret = FvErr("")

\* ---------------------------------------------------------------- pipeline

\* max_attempts of export_video.
MaxAttempts == 60

\* A credential: unset (None), or a text of some length.
CredUnset == [set |-> FALSE, len |-> 0]
CredEmpty == [set |-> TRUE, len |-> 0]
CredLong == [set |-> TRUE, len |-> 12]

CredVals == {CredUnset, CredEmpty, CredLong}

\* Python truth of a credential: None and "" are false.
Truthy(c) == c.set /\ c.len > 0

\* main's check with the template id left out.
ConfigOk_NoTemplate(e) == Truthy(e.gemini_api_key) /\ Truthy(e.canva_access_token)

\* main, line 423: all([gemini_api_key, canva_access_token, canva_template_id]).
ConfigOk(e) ==
    /\ Truthy(e.gemini_api_key)
    /\ Truthy(e.canva_access_token)
    /\ Truthy(e.canva_template_id)

\* clipper_ui.py, lines 126-131: deps_ready (the script file is present).
DepsReady(e) ==
    /\ Truthy(e.gemini_api_key) /\ e.gemini_api_key.len > 10
    /\ Truthy(e.canva_access_token) /\ e.canva_access_token.len > 10
    /\ Truthy(e.canva_template_id) /\ e.canva_template_id.len > 3

\* file.state.name of the uploaded inference file.
GeminiStates == {"PROCESSING", "ACTIVE", "FAILED"}

\* A wait loop that never waits.
StillProcessing_Never(state) == FALSE

\* upload_to_gemini, line 94: while file.state.name == "PROCESSING".
StillProcessing(state) == state = "PROCESSING"

\* One more turn of the wait loop counted.
CountPoll(n) == IF n < MaxGeminiPolls THEN n + 1 ELSE n

\* job.status values of the export endpoint; "queued" stands for every value
\* the code does not name.
Statuses == {"in_progress", "queued", "success", "failed"}

NoStatus == [status |-> "", job |-> 0]

NoError == [kind |-> "", at |-> "", payload |-> NoStatus]

\* What ends the fetch of a result: requests.get or raise_for_status (lines
\* 385-386) raises a RequestException, open or write (lines 388-389) an OSError.
DownloadErrors == {"RequestException", "OSError"}

\* No path or id yet.
NoId == <<"", 0>>

\* The loop condition with one attempt fewer.
CanPoll_OneShort(a) == a < MaxAttempts - 1

\* export_video, line 363: while attempt < max_attempts.
CanPoll(a) == a < MaxAttempts

\* The counter left as it is.
NextAttempt_Stuck(a) == a

\* export_video, line 365: attempt += 1.
NextAttempt(a) == a + 1

\* The status branches with 'failed' polled again.
AfterStatus_IgnoreFailed(status) ==
    IF status = "success" THEN "export_download" ELSE "export_poll"

\* The status branches with 'success' counted as the end of the job.
AfterStatus_SkipDownload(status) ==
    IF status = "success" THEN "loop"
    ELSE IF status = "failed" THEN "failed"
    ELSE "export_poll"

\* export_video, lines 375 and 394: where a status leads.
AfterStatus(status) ==
    IF status = "success" THEN "export_download"
    ELSE IF status = "failed" THEN "failed"
    ELSE "export_poll"

\* The record put in front of the list.
Collect_Front(videos, rec) == <<rec>> \o videos

\* output_videos.append(...), line 463 (clipper_ui.py line 266).
Collect(videos, rec) == Append(videos, rec)

\* The dict appended for a clip: main, lines 463-467; clipper_ui.py, lines 266-272.
ResultRecord(e, clip, path) ==
    IF e = "main"
    THEN [path |-> path, summary |-> clip.summary, virality_score |-> clip.virality_score]
    ELSE [path |-> path, summary |-> clip.summary, virality_score |-> clip.virality_score,
          start |-> clip.start, end |-> clip.end]

\* The replies the inference backend may give in a run: arrays of up to
\* MaxClips object literals, bare or in a json fence, and the odd replies.
Replies(n) ==
    {Wrap(f, "lines", Render(elems)) :
        f \in {"none", "json"}, elems \in BSeq(LitSources(ObjNames), n)}
        \cup GarbageReplies \cup ScalarReplies

Op(name, clip) == [op |-> name, clip |-> clip]

\* Every clip written to the first clip's path.
OutputPath_Fixed(clip_index) == <<"clip", 1>>

\* slice_video, line 205: output_dir / f"clip_{clip_index}.mp4".
OutputPath(clip_index) == <<"clip", clip_index>>

\* Every upload answered with the id of the first clip's asset.
UploadedAsset_First(path) == <<"asset", 1>>

\* upload_asset, lines 265-272: the id of the asset made from the file sent.
\* The backend's ids are opaque; the model names an asset after the clip
\* uploaded and a design after the asset bound, which keeps the ids of
\* different clips apart.
UploadedAsset(path) == <<"asset", path[2]>>

\* generate_from_template, lines 296-320: the id of the design filled with
\* the asset sent.
FilledDesign(asset) == <<"design", asset[2]>>

VARIABLES
    entry,          \* "main" (the command line) or "ui" (the generate button)
    env,            \* the three credentials
    num_clips,      \* the requested number of clips
    pc,             \* where the run stands
    log,            \* the stage operations issued, oldest first (polls excepted)
    gemini_state,   \* file.state.name as last read
    gemini_polls,   \* the turns of the wait loop so far (up to MaxGeminiPolls)
    clips_data,     \* what find_viral_clips returned
    i,              \* the loop index of the clip in hand
    raw_video,      \* the path download_video returned
    local_clip,     \* the path slice_video returned
    asset_id,       \* the id upload_asset returned
    design_id,      \* the id generate_from_template returned
    attempt,        \* export_video's poll counter
    status_data,    \* export_video's last status payload
    output_videos,  \* the records collected so far
    ret,            \* <<>> until the run returns, then <<the list returned>>
    error,          \* the exception that ended the run
    handles         \* the media handles open

cfgVars == <<entry, env, num_clips>>

pipeVars ==
    <<cfgVars, pc, log, gemini_state, gemini_polls, clips_data, i, raw_video, local_clip, asset_id,
      design_id, attempt, status_data, output_videos, ret, error, handles>>

PipeIdle ==
    /\ entry = "none"
    /\ env = [gemini_api_key |-> CredUnset, canva_access_token |-> CredUnset,
              canva_template_id |-> CredUnset]
    /\ num_clips = 0
    /\ pc = "idle" /\ log = <<>> /\ gemini_state = "" /\ gemini_polls = 0
    /\ clips_data = JNone /\ i = 0
    /\ raw_video = "" /\ local_clip = NoId /\ asset_id = NoId /\ design_id = NoId
    /\ attempt = 0 /\ status_data = NoStatus /\ output_videos = <<>> /\ ret = <<>>
    /\ error = NoError /\ handles = {}

\* The values the generate handler passes to progress_bar.progress before the
\* clip loop: clipper_ui.py lines 201, 210, 215, 219, 224 and 229.
StageProgress == <<5, 10, 30, 35, 40, 50>>

\* clipper_ui.py line 235: progress_pct = 50 + int((i / len(clips_data)) * 45).
\* The quotient is a double; for fewer than 45 clips int() of the product is
\* the integer part of 45 * i / n computed exactly.
ProgressPct(k, n) == 50 + ((k * 45) \div n)

\* The four updates of one turn of the clip loop, lines 239, 250, 256, 262.
ClipProgress(k, n) ==
    <<ProgressPct(k, n) - 3, ProgressPct(k, n) - 2, ProgressPct(k, n) - 1,
      ProgressPct(k, n)>>

\* clipper_ui.py line 275.
DoneProgress == 100

VARIABLES
    pg_pc,      \* where the generate handler stands
    pg_k,       \* how many of the updates of the stage in hand were made
    pg_n,       \* len(clips_data)
    pg_i,       \* the loop index of the clip in hand
    pg_bar,     \* the value the progress bar shows
    pg_prev     \* the value it showed before the last update

pgVars == <<pg_pc, pg_k, pg_n, pg_i, pg_bar, pg_prev>>

PgIdle ==
    /\ pg_pc = "idle" /\ pg_k = 0 /\ pg_n = 0 /\ pg_i = 0 /\ pg_bar = 0 /\ pg_prev = 0

vars == <<tsVars, fvVars, pipeVars, pgVars>>

\* --------------------------------------------- timestamp_to_seconds calls

TsChars == {"0", "1", ":", "-", ".", "a"}

TS_000412 == <<"0", "0", ":", "0", "4", ":", "1", "2">>
TS_0412 == <<"0", "4", ":", "1", "2">>
TS_12 == <<"1", "2">>
TS_abc == <<"a", ":", "b", ":", "c">>
TS_1234 == <<"1", ":", "2", ":", "3", ":", "4">>

TsSamples == {TS_000412, TS_0412, TS_12, TS_abc, TS_1234}

TsInputs == BSeq(TsChars, MaxTsLen) \cup TsSamples

InitTs ==
    /\ ts_in \in TsInputs
    /\ ts_pc = "call"
    /\ ts_out = NumErr
    /\ FvIdle /\ PipeIdle /\ PgIdle

TsCall ==
    /\ ts_pc = "call"
    /\ LET r == timestamp_to_seconds(ts_in)
       IN  /\ ts_pc' = IF r.ok THEN "returned" ELSE "raised"
           /\ ts_out' = r
    /\ UNCHANGED <<ts_in, fvVars, pipeVars, pgVars>>

NextTs == TsCall

SpecTs == InitTs /\ [][NextTs]_vars

\* ------------------------------------------------- find_viral_clips calls

FvSources == StrSources \cup LitSources(ObjNames)

InitFv ==
    /\ \/ /\ fv_kind = "array"
          /\ fv_elems \in BSeq(FvSources, MaxElems)
          /\ fv_fence \in {"none", "plain", "json"}
          /\ fv_layout \in {"tight", "lines"}
          /\ fv_resp = Wrap(fv_fence, fv_layout, Render(fv_elems))
       \/ /\ fv_kind = "garbage"
          /\ fv_resp \in GarbageReplies
          /\ fv_elems = <<>> /\ fv_fence = "none" /\ fv_layout = "tight"
       \/ /\ fv_kind = "scalar"
          /\ fv_resp \in ScalarReplies
          /\ fv_elems = <<>> /\ fv_fence = "none" /\ fv_layout = "tight"
    /\ fv_text = <<>>
    /\ fv_pc = "call"
    /\ fv_json = JFail
    /\ fv_ret = FvErr("")
    /\ TsIdle /\ PipeIdle /\ PgIdle

FvCall ==
    /\ fv_pc = "call"
    /\ fv_text' = StripFence(fv_resp)
    /\ fv_json' = ParseReply(fv_resp)
    /\ fv_ret' = FindViralClips(fv_resp)
    /\ fv_pc' = "done"
    /\ UNCHANGED <<fv_kind, fv_elems, fv_fence, fv_layout, fv_resp, tsVars, pipeVars,
                   pgVars>>

NextFv == FvCall

SpecFv == InitFv /\ [][NextFv]_vars

\* ------------------------------------------------------------ pipeline run

\* The loop cut down to the requested number of clips.
Clips_Requested ==
    SubSeq(Items(clips_data), 1,
           IF num_clips < Len(Items(clips_data)) THEN num_clips
           ELSE Len(Items(clips_data)))

\* The clips the loop visits, and the dict of the k-th.
Clips == Items(clips_data)

Clip(k) == Clips[k].v

\* How many operations of this name the log holds for this clip.
Issued(name, clip) == Cardinality({k \in 1..Len(log) : log[k] = Op(name, clip)})

\* The requested clip counts tried (the default, and another).
NumClipsChoices == {1, 3}

Init ==
    /\ entry \in {"main", "ui"}
    /\ env \in [gemini_api_key : CredVals, canva_access_token : CredVals,
                canva_template_id : CredVals]
    /\ num_clips \in NumClipsChoices
    /\ pc = "start" /\ log = <<>> /\ gemini_state = "" /\ gemini_polls = 0
    /\ clips_data = JNone /\ i = 0
    /\ raw_video = "" /\ local_clip = NoId /\ asset_id = NoId /\ design_id = NoId
    /\ attempt = 0 /\ status_data = NoStatus /\ output_videos = <<>> /\ ret = <<>>
    /\ error = NoError /\ handles = {}
    /\ TsIdle /\ FvIdle /\ PgIdle

\* An error that drops the clip in hand and goes on with the next.
Fail_SkipClip(kind, at, payload) ==
    /\ pc' = IF i > 0 THEN "loop" ELSE "failed"
    /\ error' = [kind |-> kind, at |-> at, payload |-> payload]

\* An error that is tried again once before it ends the run.
Fail_RetryOnce(kind, at, payload) ==
    /\ pc' = IF error.kind = "" THEN pc ELSE "failed"
    /\ error' = [kind |-> kind, at |-> at, payload |-> payload]

\* An exception leaves the run: main re-raises it (lines 484-486), the
\* generate handler shows it (clipper_ui.py lines 308-310); nothing is returned.
Fail(kind, at, payload) ==
    /\ pc' = "failed"
    /\ error' = [kind |-> kind, at |-> at, payload |-> payload]

\* main, lines 418-430; clipper_ui.py, lines 172-206.  Without deps_ready the
\* page shows no generate button and the handler never runs.
Start ==
    /\ pc = "start"
    /\ IF entry = "main"
       THEN IF ConfigOk(env) THEN pc' = "download" /\ UNCHANGED error
            ELSE Fail("ValueError", "config", NoStatus)
       ELSE /\ pc' = IF DepsReady(env) THEN "download" ELSE "blocked"
            /\ UNCHANGED error
    /\ UNCHANGED <<cfgVars, log, gemini_state, gemini_polls, clips_data, i, raw_video, local_clip,
                   asset_id, design_id, attempt, status_data, output_videos, ret,
                   handles, tsVars, fvVars, pgVars>>

\* ContentIngestor.download_video.
Download ==
    /\ pc = "download"
    /\ log' = Append(log, Op("download", 0))
    /\ \/ raw_video' = "temp/raw_video.mp4" /\ pc' = "upload_gemini" /\ UNCHANGED error
       \/ Fail("DownloadError", "download_video", NoStatus) /\ UNCHANGED raw_video
    /\ UNCHANGED <<cfgVars, gemini_state, gemini_polls, clips_data, i, local_clip, asset_id, design_id,
                   attempt, status_data, output_videos, ret, handles, tsVars, fvVars, pgVars>>

\* upload_to_gemini, lines 90-91: genai.upload_file.
UploadGemini ==
    /\ pc = "upload_gemini"
    /\ log' = Append(log, Op("upload_file", 0))
    /\ \/ \E st \in GeminiStates :
            gemini_state' = st /\ pc' = "wait_gemini" /\ UNCHANGED error
       \/ Fail("Exception", "upload_to_gemini", NoStatus) /\ UNCHANGED gemini_state
    /\ UNCHANGED <<cfgVars, gemini_polls, clips_data, i, raw_video, local_clip, asset_id, design_id,
                   attempt, status_data, output_videos, ret, handles, tsVars, fvVars, pgVars>>

\* upload_to_gemini, lines 94-97: one turn of the wait loop.  The count of
\* turns ends with the call.
GeminiPoll ==
    /\ pc = "wait_gemini"
    /\ StillProcessing(gemini_state)
    /\ \/ \E st \in GeminiStates :
            /\ gemini_state' = st
            /\ gemini_polls' = CountPoll(gemini_polls)
            /\ UNCHANGED <<pc, error>>
       \/ /\ Fail("Exception", "upload_to_gemini", NoStatus)
          /\ gemini_polls' = 0
          /\ UNCHANGED gemini_state
    /\ UNCHANGED <<cfgVars, log, clips_data, i, raw_video, local_clip, asset_id,
                   design_id, attempt, status_data, output_videos, ret, handles,
                   tsVars, fvVars, pgVars>>

\* upload_to_gemini, lines 99-100.
GeminiFailed ==
    /\ pc = "wait_gemini"
    /\ ~StillProcessing(gemini_state)
    /\ gemini_state = "FAILED"
    /\ Fail("ValueError", "upload_to_gemini", NoStatus)
    /\ gemini_polls' = 0
    /\ UNCHANGED <<cfgVars, log, gemini_state, clips_data, i, raw_video, local_clip,
                   asset_id, design_id, attempt, status_data, output_videos, ret,
                   handles, tsVars, fvVars, pgVars>>

\* upload_to_gemini, lines 102-103.
GeminiReady ==
    /\ pc = "wait_gemini"
    /\ ~StillProcessing(gemini_state)
    /\ gemini_state # "FAILED"
    /\ pc' = "find_clips"
    /\ gemini_polls' = 0
    /\ UNCHANGED <<cfgVars, log, gemini_state, clips_data, i, raw_video, local_clip,
                   asset_id, design_id, attempt, status_data, output_videos, ret,
                   error, handles, tsVars, fvVars, pgVars>>

\* find_viral_clips: the inference request and the handling of its reply.
FindClips ==
    /\ pc = "find_clips"
    /\ log' = Append(log, Op("generate_content", 0))
    /\ \/ Fail("Exception", "find_viral_clips", NoStatus) /\ UNCHANGED clips_data
       \/ \E reply \in Replies(MaxClips) :
            LET r == FindViralClips(reply)
            IN  IF r.ok
                THEN clips_data' = r.clips /\ pc' = "loop" /\ UNCHANGED error
                ELSE Fail(r.err, "find_viral_clips", NoStatus) /\ UNCHANGED clips_data
    /\ UNCHANGED <<cfgVars, gemini_state, gemini_polls, i, raw_video, local_clip, asset_id, design_id,
                   attempt, status_data, output_videos, ret, handles, tsVars, fvVars, pgVars>>

\* The for loop's header, line 446, and the return after it, lines 471-482
\* (clipper_ui.py lines 234 and 274-306).
LoopNext ==
    /\ pc = "loop"
    /\ IF i < Len(Clips)
       THEN i' = i + 1 /\ pc' = "slice" /\ UNCHANGED ret
       ELSE pc' = "done" /\ ret' = <<output_videos>> /\ UNCHANGED i
    /\ UNCHANGED <<cfgVars, log, gemini_state, gemini_polls, clips_data, raw_video, local_clip,
                   asset_id, design_id, attempt, status_data, output_videos, error,
                   handles, tsVars, fvVars, pgVars>>

\* slice_video: the two conversions, then the media library, which may raise
\* when the source is opened, when the range is cut or when the clip is
\* written; close() is reached on the success path only.
SliceVideo ==
    /\ pc = "slice"
    /\ log' = Append(log, Op("slice", i))
    /\ LET start_sec == timestamp_to_seconds(Clip(i).start)
           end_sec == timestamp_to_seconds(Clip(i).end)
       IN  IF ~start_sec.ok \/ ~end_sec.ok
           THEN Fail("ValueError", "slice_video", NoStatus)
                    /\ UNCHANGED <<local_clip, handles>>
           ELSE \/ Fail("Exception", "slice_video", NoStatus)
                    /\ UNCHANGED <<local_clip, handles>>
                \/ Fail("Exception", "slice_video", NoStatus)
                    /\ handles' = handles \cup {<<"video", i>>}
                    /\ UNCHANGED local_clip
                \/ Fail("Exception", "slice_video", NoStatus)
                    /\ handles' = handles \cup {<<"video", i>>, <<"subclip", i>>}
                    /\ UNCHANGED local_clip
                \/ /\ local_clip' = OutputPath(i)
                   /\ pc' = "upload_asset"
                   /\ UNCHANGED <<error, handles>>
    /\ UNCHANGED <<cfgVars, gemini_state, gemini_polls, clips_data, i, raw_video, asset_id, design_id,
                   attempt, status_data, output_videos, ret, tsVars, fvVars, pgVars>>

\* upload_asset.
UploadAsset ==
    /\ pc = "upload_asset"
    /\ log' = Append(log, Op("upload_asset", i))
    /\ \/ asset_id' = UploadedAsset(local_clip) /\ pc' = "generate" /\ UNCHANGED error
       \/ Fail("RequestException", "upload_asset", NoStatus) /\ UNCHANGED asset_id
    /\ UNCHANGED <<cfgVars, gemini_state, gemini_polls, clips_data, i, raw_video, local_clip, design_id,
                   attempt, status_data, output_videos, ret, handles, tsVars, fvVars, pgVars>>

\* generate_from_template.
Generate ==
    /\ pc = "generate"
    /\ log' = Append(log, Op("autofill", i))
    /\ \/ design_id' = FilledDesign(asset_id) /\ pc' = "export_submit"
            /\ UNCHANGED error
       \/ Fail("RequestException", "generate_from_template", NoStatus)
            /\ UNCHANGED design_id
    /\ UNCHANGED <<cfgVars, gemini_state, gemini_polls, clips_data, i, raw_video, local_clip, asset_id,
                   attempt, status_data, output_videos, ret, handles, tsVars, fvVars, pgVars>>

\* export_video, lines 349-361: the export request.
ExportSubmit ==
    /\ pc = "export_submit"
    /\ log' = Append(log, Op("export", i))
    /\ \/ attempt' = 0 /\ pc' = "export_poll" /\ UNCHANGED error
       \/ Fail("RequestException", "export_video", NoStatus) /\ UNCHANGED attempt
    /\ UNCHANGED <<cfgVars, gemini_state, gemini_polls, clips_data, i, raw_video, local_clip, asset_id,
                   design_id, status_data, output_videos, ret, handles, tsVars, fvVars, pgVars>>

\* export_video, lines 363-373 and 394-395: one turn of the poll loop up to
\* the status branches.
ExportPoll ==
    /\ pc = "export_poll"
    /\ CanPoll(attempt)
    /\ attempt' = NextAttempt(attempt)
    /\ \/ Fail("RequestException", "export_video", NoStatus) /\ UNCHANGED status_data
       \/ \E s \in Statuses :
            /\ status_data' = [status |-> s, job |-> design_id[2]]
            /\ IF AfterStatus(s) = "failed"
               THEN Fail("Exception", "export_video", status_data')
               ELSE pc' = AfterStatus(s) /\ UNCHANGED error
    /\ UNCHANGED <<cfgVars, log, gemini_state, gemini_polls, clips_data, i, raw_video, local_clip,
                   asset_id, design_id, output_videos, ret, handles, tsVars, fvVars, pgVars>>

\* export_video, lines 375-392, and the append after the return: the result
\* is fetched and written, the path returned and the record collected.
ExportDownload ==
    /\ pc = "export_download"
    /\ log' = Append(log, Op("result_download", i))
    /\ \/ /\ output_videos' =
                Collect(output_videos,
                        ResultRecord(entry, Clip(i), <<"canva_video", design_id[2]>>))
          /\ pc' = "loop"
          /\ attempt' = 0
          /\ status_data' = NoStatus
          /\ UNCHANGED error
       \/ \E kind \in DownloadErrors :
            /\ Fail(kind, "export_video", NoStatus)
            /\ UNCHANGED <<output_videos, attempt, status_data>>
    /\ UNCHANGED <<cfgVars, gemini_state, gemini_polls, clips_data, i, raw_video, local_clip, asset_id,
                   design_id, ret, handles, tsVars, fvVars, pgVars>>

\* export_video, lines 363 and 397: the loop ends without a terminal status.
ExportTimeout ==
    /\ pc = "export_poll"
    /\ ~CanPoll(attempt)
    /\ Fail("TimeoutError", "export_video", NoStatus)
    /\ UNCHANGED <<cfgVars, log, gemini_state, gemini_polls, clips_data, i, raw_video, local_clip,
                   asset_id, design_id, attempt, status_data, output_videos, ret,
                   handles, tsVars, fvVars, pgVars>>

Next ==
    \/ Start
    \/ Download
    \/ UploadGemini
    \/ GeminiPoll
    \/ GeminiFailed
    \/ GeminiReady
    \/ FindClips
    \/ LoopNext
    \/ SliceVideo
    \/ UploadAsset
    \/ Generate
    \/ ExportSubmit
    \/ ExportPoll
    \/ ExportDownload
    \/ ExportTimeout

Spec == Init /\ [][Next]_vars

\* Every request of export_video is answered, so the poll loop keeps turning
\* and the download of a result ends.
FairSpec ==
    Spec /\ WF_vars(ExportPoll) /\ WF_vars(ExportTimeout) /\ WF_vars(ExportDownload)

\* The code after the wait loop of upload_to_gemini runs once the loop is
\* left.  Nothing is assumed of the states the backend reports.
FairGeminiSpec == Spec /\ WF_vars(GeminiFailed) /\ WF_vars(GeminiReady)

\* ------------------------------------------------------- the progress bar

\* The generate handler of clipper_ui.py as the progress bar sees it: the
\* stage calls between two updates return or raise, and find_viral_clips
\* returns a list of any length.
InitPg ==
    /\ pg_pc = "stages" /\ pg_k = 0 /\ pg_n = 0 /\ pg_i = 0
    /\ pg_bar = 0 /\ pg_prev = 0
    /\ TsIdle /\ FvIdle /\ PipeIdle

Show(v) == pg_prev' = pg_bar /\ pg_bar' = v

\* Lines 200-224: the updates up to the one before find_viral_clips.
PgStage ==
    /\ pg_pc = "stages"
    /\ pg_k < Len(StageProgress) - 1
    /\ pg_k' = pg_k + 1
    /\ Show(StageProgress[pg_k + 1])
    /\ UNCHANGED <<pg_pc, pg_n, pg_i, tsVars, fvVars, pipeVars>>

\* Lines 226-232: find_viral_clips returns, the bar goes to 50 and the loop
\* starts.
PgFound ==
    /\ pg_pc = "stages"
    /\ pg_k = Len(StageProgress) - 1
    /\ \E n \in 0..MaxSegments : pg_n' = n
    /\ Show(StageProgress[Len(StageProgress)])
    /\ pg_pc' = "clips" /\ pg_k' = 0 /\ pg_i' = 0
    /\ UNCHANGED <<tsVars, fvVars, pipeVars>>

\* Line 234: the loop takes the next clip, or ends.
PgLoop ==
    /\ pg_pc = "clips"
    /\ pg_k = 0
    /\ IF pg_i < pg_n
       THEN pg_i' = pg_i + 1 /\ pg_k' = 1 /\ UNCHANGED <<pg_pc, pg_bar, pg_prev>>
       ELSE pg_pc' = "done" /\ Show(DoneProgress) /\ UNCHANGED <<pg_i, pg_k>>
    /\ UNCHANGED <<pg_n, tsVars, fvVars, pipeVars>>

\* Lines 235-272: one update of the clip in hand, before the stage call it
\* announces.
PgClip ==
    /\ pg_pc = "clips"
    /\ pg_k \in 1..4
    /\ Show(ClipProgress(pg_i, pg_n)[pg_k])
    /\ pg_k' = IF pg_k < 4 THEN pg_k + 1 ELSE 0
    /\ UNCHANGED <<pg_pc, pg_n, pg_i, tsVars, fvVars, pipeVars>>

\* Lines 308-310: a stage call raised; the bar stays where it is.
PgError ==
    /\ pg_pc \in {"stages", "clips"}
    /\ pg_pc' = "error"
    /\ UNCHANGED <<pg_k, pg_n, pg_i, pg_bar, pg_prev, tsVars, fvVars, pipeVars>>

NextPg ==
    \/ PgStage
    \/ PgFound
    \/ PgLoop
    \/ PgClip
    \/ PgError

SpecPg == InitPg /\ [][NextPg]_vars

\* ------------------------------------------------------------------ claims

TerminalStatuses == {"success", "failed"}

\* C1: export_video polls at most 60 times per job: a 'success' on attempt k,
\* for any k in 1..60, leads to the download of the result, and the timeout
\* error is raised only after 60 non-terminal answers, with no download
\* request issued.
C1_PollBudget ==
    /\ attempt \in 0..60
    /\ status_data.status = "success" =>
         /\ attempt \in 1..60
         /\ \/ pc = "export_download" /\ Issued("result_download", i) = 0
            \/ pc = "failed" /\ Issued("result_download", i) = 1
    /\ error.kind = "TimeoutError" =>
         /\ attempt = 60
         /\ status_data.status \notin TerminalStatuses
         /\ Issued("result_download", i) = 0

\* The 60th poll answered 'success' and the download is due.
C1_Witness ==
    /\ pc = "export_download"
    /\ attempt = 60
    /\ status_data.status = "success"

\* C2: when every stage succeeds, the run returns one record per segment, the
\* k-th from the k-th segment, with that segment's summary and virality score.
C2_RecordsMatchSegments ==
    pc = "done" =>
        /\ ret = <<output_videos>>
        /\ Len(ret[1]) = Len(Clips)
        /\ \A k \in 1..Len(Clips) :
             /\ ret[1][k].path = <<"canva_video", k>>
             /\ ret[1][k].summary = Clip(k).summary
             /\ ret[1][k].virality_score = Clip(k).virality_score

\* A run over two different segments returned.
C2_Witness ==
    /\ pc = "done"
    /\ Len(Clips) = 2
    /\ Clip(1).virality_score # Clip(2).virality_score

\* A credential that is missing or empty.
Missing(c) == ~c.set \/ c.len = 0

\* C3: with one of the three credentials missing or empty, main raises a
\* configuration error before any download, inference or rendering request.
C3_ConfigErrorFirst ==
    (/\ entry = "main"
     /\ \/ Missing(env.gemini_api_key)
        \/ Missing(env.canva_access_token)
        \/ Missing(env.canva_template_id))
        => /\ log = <<>>
           /\ pc \in {"start", "failed"}
           /\ pc = "failed" => error = [kind |-> "ValueError", at |-> "config",
                                        payload |-> NoStatus]

\* main stopped on a missing template id, the other two credentials present.
C3_Witness ==
    /\ entry = "main"
    /\ pc = "failed"
    /\ error.at = "config"
    /\ ~Missing(env.gemini_api_key)
    /\ ~Missing(env.canva_access_token)
    /\ Missing(env.canva_template_id)

\* C4: the first error of any stage ends the run: nothing is returned, not
\* even the records of the segments before, and no further stage operation
\* or poll is issued.
C4_AbortOnError ==
    /\ [](error.kind # "" => (pc = "failed" /\ ret = <<>>))
    /\ [][error.kind # "" => UNCHANGED <<log, attempt, output_videos>>]_vars

\* The second segment's export failed after the first segment's record was
\* collected.
C4_Witness ==
    /\ pc = "failed"
    /\ error.at = "export_video"
    /\ i = 2
    /\ Len(output_videos) = 1
    /\ ret = <<>>

\* C9: a 'failed' status ends the export at once with an error that carries
\* the status payload; no further status request and no download follows.
C9_FailedEndsExport ==
    /\ status_data.status = "failed" =>
         /\ pc = "failed"
         /\ error = [kind |-> "Exception", at |-> "export_video", payload |-> status_data]
         /\ Issued("result_download", i) = 0
    /\ (error.kind = "Exception" /\ error.at = "export_video") =>
         error.payload.status = "failed"

\* A job reported 'failed' after some non-terminal answers.
C9_Witness ==
    /\ status_data.status = "failed"
    /\ attempt > 1
    /\ pc = "failed"

\* C10: every export job ends in one terminal outcome whatever statuses the
\* backend returns: polling is the only repeating state, it repeats only on
\* a non-terminal status, each poll adds one to the attempt counter, and no
\* poll follows the 60th.
C10_JobTerminates ==
    /\ [](attempt \in 0..60)
    /\ [][pc = "export_poll" =>
            /\ attempt' # attempt => (attempt < 60 /\ attempt' = attempt + 1)
            /\ pc' = "export_poll" =>
                 (attempt' = attempt + 1 /\ status_data'.status \notin TerminalStatuses)
            /\ pc' # "export_poll" =>
                 \/ pc' = "export_download" /\ status_data'.status = "success"
                 \/ pc' = "failed" /\ error'.kind = "Exception"
                        /\ status_data'.status = "failed"
                 \/ pc' = "failed" /\ error'.kind = "TimeoutError" /\ attempt = 60
                 \/ pc' = "failed" /\ error'.kind = "RequestException"]_vars
    /\ [][pc # "export_poll" => attempt' \in {attempt, 0}]_vars
    /\ (pc \in {"export_poll", "export_download"}) ~> (pc \in {"loop", "failed"})

\* A job was polled 60 times and timed out.
C10_Witness ==
    /\ pc = "failed"
    /\ error.kind = "TimeoutError"
    /\ status_data.status = "queued"

\* A well-formed timestamp: one to three ':'-separated parts, the leading ones
\* unsigned whole numbers, the last one an unsigned decimal number of seconds.
WholePart(c) == c # <<>> /\ AllDigits(c)

DecimalPart(c) ==
    LET q == Split(c, <<".">>)
    IN  \/ WholePart(c)
        \/ Len(q) = 2 /\ WholePart(q[1]) /\ WholePart(q[2])

WellFormedTs(ts) ==
    LET p == Split(ts, <<":">>)
    IN  /\ Len(p) \in 1..3
        /\ \A k \in 1..(Len(p) - 1) : WholePart(p[k])
        /\ DecimalPart(p[Len(p)])

\* The decimal number a DecimalPart denotes, as n / 10^e.
DecimalOf(c) ==
    LET q == Split(c, <<".">>)
    IN  IF Len(q) = 1 THEN Num(DigitsVal(c), 0)
        ELSE Num(DigitsVal(q[1]) * Pow10(Len(q[2])) + DigitsVal(q[2]), Len(q[2]))

\* whole + dec for a whole number and a decimal n / 10^e.
PlusWhole(whole, dec) == Num(whole * Pow10(dec.e) + dec.n, dec.e)

\* C5: on a well-formed timestamp timestamp_to_seconds returns
\* hours*3600 + minutes*60 + seconds for 'H:M:S', minutes*60 + seconds for
\* 'M:S' and the number itself for a one-part input; '00:04:12' and '04:12'
\* give 252 and '12' gives 12.
C5_TsValue ==
    (ts_pc # "call" /\ WellFormedTs(ts_in)) =>
        LET p == Split(ts_in, <<":">>)
        IN  /\ ts_pc = "returned"
            /\ Len(p) = 3 =>
                  ts_out = PlusWhole(DigitsVal(p[1]) * 3600 + DigitsVal(p[2]) * 60,
                                     DecimalOf(p[3]))
            /\ Len(p) = 2 => ts_out = PlusWhole(DigitsVal(p[1]) * 60, DecimalOf(p[2]))
            /\ Len(p) = 1 => ts_out = DecimalOf(p[1])
            /\ ts_in \in {TS_000412, TS_0412} => ts_out = [ok |-> TRUE, n |-> 252, e |-> 0]
            /\ ts_in = TS_12 => ts_out = [ok |-> TRUE, n |-> 12, e |-> 0]

\* A three-part timestamp with a non-zero hour was converted.
C5_Witness ==
    /\ ts_pc = "returned"
    /\ WellFormedTs(ts_in)
    /\ Len(Split(ts_in, <<":">>)) = 3
    /\ DigitsVal(Split(ts_in, <<":">>)[1]) > 0

\* A malformed timestamp: more than three parts, or a part that is no number.
MalformedTs(ts) ==
    LET p == Split(ts, <<":">>)
    IN  \/ Len(p) > 3
        \/ \E k \in 1..Len(p) : ~PyFloat(p[k]).ok

\* C6: timestamp_to_seconds raises on every malformed timestamp (a
\* non-numeric component, or more than three parts) and never returns a
\* number for one.
C6_MalformedRaises ==
    (ts_pc # "call" /\ MalformedTs(ts_in)) => ts_pc = "raised"

\* C7: fence stripping is lossless and idempotent: a JSON array payload
\* wrapped in a plain or json code fence parses to the array the bare payload
\* denotes, and the stripping step leaves a bare payload as it is.
C7_FenceLossless ==
    (fv_pc = "done" /\ fv_kind = "array") =>
        /\ fv_json.ok
        /\ fv_json.val = JArr([k \in 1..Len(fv_elems) |-> ElemValue(fv_elems[k])])
        /\ fv_fence = "none" => fv_text = Render(fv_elems)

\* An element source that is no object with the four fields of a segment.
LacksField(es) == es.t = "str" \/ es.v[1] \notin FullObjNames

\* C8: find_viral_clips raises, and returns no segment list, whenever the
\* reply is no parseable JSON or an element lacks one of start, end, summary,
\* virality_score.
C8_NoSilentCoercion ==
    (/\ fv_pc = "done"
     /\ \/ fv_kind = "garbage"
        \/ \E k \in 1..Len(fv_elems) : LacksField(fv_elems[k]))
        => (~fv_ret.ok /\ fv_ret.err # "" /\ fv_ret.clips = JNone)

\* A reply whose array holds an object without a summary was handled.
C8_Witness ==
    /\ fv_pc = "done"
    /\ fv_kind = "array"
    /\ fv_json.ok
    /\ \E k \in 1..Len(fv_elems) : fv_elems[k] = [t |-> "lit", v |-> <<"{NoSummary}">>]
    /\ fv_ret.err = "KeyError"

\* The clips slice_video was called for and has ended for.
Sliced == {k \in 1..Len(Clips) : Issued("slice", k) > 0 /\ ~(pc = "slice" /\ i = k)}

\* C11: slice_video releases every media handle it opened on every exit path:
\* once a call has ended, by returning a path or by raising, neither the
\* source-video handle nor the sub-clip handle of that call is open.
C11_HandlesReleased ==
    \A k \in Sliced : <<"video", k>> \notin handles /\ <<"subclip", k>> \notin handles

\* The fields of a ResultRecord.
RecordFields == {"path", "summary", "virality_score", "start", "end"}

\* C12: every record the pipeline produces, from the command line and from
\* the web page alike, carries path, summary, virality score and the start
\* and end timestamps of its segment.
C12_RecordHasTimestamps ==
    \A k \in 1..Len(output_videos) :
        /\ DOMAIN output_videos[k] = RecordFields
        /\ output_videos[k].start = Clip(k).start
        /\ output_videos[k].end = Clip(k).end

\* C13: the progress percentage shown never decreases from one update to the
\* next, for every number of segments the analysis engine may return: 5, 10,
\* 30, 35, 40, 50, then pct-3, pct-2, pct-1, pct for each segment with
\* pct = 50 + floor(45*i/n), then 100.
C13_ProgressMonotone == pg_prev <= pg_bar

\* The operations of a run before the clip loop, and those of the k-th clip.
StageOps == <<Op("download", 0), Op("upload_file", 0), Op("generate_content", 0)>>

ClipOps(k) ==
    <<Op("slice", k), Op("upload_asset", k), Op("autofill", k), Op("export", k),
      Op("result_download", k)>>

RECURSIVE OpsUpTo(_)
OpsUpTo(k) == IF k = 0 THEN StageOps ELSE OpsUpTo(k - 1) \o ClipOps(k)

IsPrefix(a, b) == Len(a) <= Len(b) /\ SubSeq(b, 1, Len(a)) = a

\* C14: the stage operations are strictly sequential: download, prepare,
\* findSegments, then for each segment slice, uploadAsset, instantiateTemplate,
\* exportVideo; every operation of a segment, the polling and the result
\* download of its export included, is over before the slice of the next
\* begins, and each stage consumes the output of the stage right before it.
C14_Sequential ==
    /\ IsPrefix(log, OpsUpTo(i))
    /\ i > 0 => IsPrefix(OpsUpTo(i - 1), log)
    /\ pc \in {"upload_gemini", "wait_gemini", "find_clips"} =>
         raw_video = "temp/raw_video.mp4"
    /\ pc \in {"loop", "slice"} => (attempt = 0 /\ status_data = NoStatus)
    /\ pc = "upload_asset" => local_clip = <<"clip", i>>
    /\ pc = "generate" => asset_id = <<"asset", i>>
    /\ pc \in {"export_submit", "export_poll", "export_download"} =>
         design_id = <<"design", i>>
    /\ status_data # NoStatus => status_data.job = i

\* The second segment is about to be cut, the first one's five operations done.
C14_Witness ==
    /\ pc = "slice"
    /\ i = 2
    /\ log = OpsUpTo(1)

\* C15: upload_to_gemini blocks while the backend reports PROCESSING and
\* re-reads the state once per wait; it returns a handle only when the last
\* state read is neither PROCESSING nor FAILED, raises when it is FAILED, and
\* has no bound on the number of polls: another poll is due however many were
\* made, and the call ends once a state other than PROCESSING is read.  (A
\* state request that itself raises ends the call with that exception.)
C15_WaitsWhileProcessing ==
    /\ [](pc = "find_clips" => gemini_state \notin {"PROCESSING", "FAILED"})
    /\ []((pc = "wait_gemini" /\ gemini_state = "PROCESSING") =>
            (ENABLED GeminiPoll /\ ~ENABLED GeminiReady /\ ~ENABLED GeminiFailed))
    /\ [][pc = "wait_gemini" =>
            /\ gemini_state = "PROCESSING" =>
                 \/ /\ pc' = "wait_gemini"
                    /\ gemini_state' \in GeminiStates
                    /\ gemini_polls' = CountPoll(gemini_polls)
                 \/ pc' = "failed" /\ error'.kind = "Exception"
            /\ gemini_state = "FAILED" =>
                 (pc' = "failed" /\ error'.kind = "ValueError"
                    /\ error'.at = "upload_to_gemini")
            /\ gemini_state \notin {"PROCESSING", "FAILED"} =>
                 (pc' = "find_clips" /\ gemini_state' = gemini_state)]_vars
    /\ (pc = "wait_gemini" /\ gemini_state # "PROCESSING") ~> (pc # "wait_gemini")

\* The state was read PROCESSING as often as the model counts and the loop
\* still waits.
C15_Witness ==
    /\ pc = "wait_gemini"
    /\ gemini_state = "PROCESSING"
    /\ gemini_polls = MaxGeminiPolls

\* C16: on a 'success' status export_video downloads the result before the
\* job counts as complete: a path is returned, and a record made from it, only
\* after the download succeeded and the file was written; a failing download
\* ends the export with a request or file error, which is neither the error
\* raised for a 'failed' status nor the timeout error.
C16_DownloadBeforeComplete ==
    /\ \A k \in 1..Len(output_videos) :
         /\ Issued("result_download", k) = 1
         /\ output_videos[k].path = <<"canva_video", k>>
    /\ pc = "loop" => Len(output_videos) = i
    /\ pc = "export_download" =>
         (status_data.status = "success" /\ Len(output_videos) = i - 1)
    /\ (pc = "failed" /\ i > 0 /\ Issued("result_download", i) = 1) =>
         /\ error.at = "export_video"
         /\ error.kind \in DownloadErrors
         /\ error.kind \notin {"Exception", "TimeoutError"}
         /\ status_data.status = "success"
         /\ Len(output_videos) = i - 1
         /\ ret = <<>>
    /\ (error.kind = "TimeoutError" \/ status_data.status = "failed") =>
         Issued("result_download", i) = 0

\* The download of the second clip's result failed after a 'success' status.
C16_Witness ==
    /\ pc = "failed"
    /\ i = 2
    /\ Issued("result_download", 2) = 1
    /\ error.kind = "RequestException"
    /\ status_data.status = "success"

\* C17: every value timestamp_to_seconds returns is a non-negative number of
\* seconds: no accepted timestamp, a leading minus sign in a component
\* included, yields a negative offset.
C17_NonNegative == ts_pc = "returned" => ts_out.n >= 0

\* a < b for two numbers n / 10^e.
NumLess(a, b) == a.n * Pow10(b.e) < b.n * Pow10(a.e)

\* C18: every segment the pipeline hands to slice_video satisfies
\* toSeconds(start) < toSeconds(end): a segment the backend returned with its
\* end at or before its start is never cut or rendered.
C18_StartBeforeEnd ==
    \A k \in 1..Len(Clips) :
        LET start_sec == timestamp_to_seconds(Clip(k).start)
            end_sec == timestamp_to_seconds(Clip(k).end)
        IN  (Issued("slice", k) > 0 /\ start_sec.ok /\ end_sec.ok) =>
                NumLess(start_sec, end_sec)

\* The requests a run issues besides the state and status reads.
RunOps == {"download", "upload_file", "generate_content"}

ClipOpNames == {"slice", "upload_asset", "autofill", "export", "result_download"}

\* C19: no request is ever retried: in one run the video download, the
\* inference upload and the inference request are each issued at most once,
\* and for each clip the asset upload, the autofill request, the export
\* submission and the result download are each issued at most once; only the
\* state and status reads of the two poll loops repeat, and a status read
\* that fails ends the export at once instead of being polled again.
C19_NoRetry ==
    /\ [](/\ \A name \in RunOps : Issued(name, 0) <= 1
          /\ \A name \in ClipOpNames : \A k \in 1..(MaxClips + 1) : Issued(name, k) <= 1
          /\ \A k \in 1..Len(log) :
               \/ log[k].op \in RunOps /\ log[k].clip = 0
               \/ log[k].op \in ClipOpNames /\ log[k].clip \in 1..Len(Clips))
    /\ [][(pc = "export_poll" /\ error'.kind = "RequestException") =>
            (pc' = "failed" /\ error'.at = "export_video")]_vars
    /\ [][pc = "failed" => UNCHANGED <<pc, log, attempt, gemini_polls>>]_vars

\* A status read failed after the job had been polled before.
C19_Witness ==
    /\ pc = "failed"
    /\ error.kind = "RequestException"
    /\ error.at = "export_video"
    /\ attempt > 1
    /\ Issued("export", i) = 1
    /\ Issued("result_download", i) = 0

Returned == Items(clips_data)

====
